---- MODULE Spec2Model ----
(***************************************************************************)
(* A model of src/scraper.py: the MyFootDr clinic scraper.                 *)
(*                                                                         *)
(* Text is modelled as a sequence of tokens.  A token is a separator       *)
(* ("/", "-", " "), a word, or a shaped token such as a phone number or an *)
(* e-mail address; the empty string is the empty sequence.                 *)
(*                                                                         *)
(* The network and the file system are the environment: what a GET meets,  *)
(* what a fetched page holds and whether a write to the output file goes   *)
(* through are chosen freely at each step.  Logging and the random delay   *)
(* before a fetch change no state and are left out.                        *)
(***************************************************************************)
EXTENDS Integers, Sequences, FiniteSets, TLC

VARIABLES
    pc,              \* position of scrape_all_clinics
    seen_clinic_urls,\* self.seen_clinic_urls
    file,            \* what is stored at the output path
    sinkOpen,        \* csvfile is open
    regions,         \* the list extract_regions returned
    ri,              \* index of the region of the outer loop
    clinics,         \* the list extract_clinics_from_region returned
    ci,              \* index of the clinic of the inner loop
    total_scraped,   \* the local counter of scrape_all_clinics
    returned,        \* the value scrape_all_clinics returned
    trace,           \* history: what each loop iteration did
    call,            \* a function called on its own: its inputs
    ret              \* ... and what it returned

vars == <<pc, seen_clinic_urls, file, sinkOpen, regions, ri, clinics, ci,
          total_scraped, returned, trace, call, ret>>

pipelineVars == <<pc, seen_clinic_urls, file, sinkOpen, regions, ri, clinics,
                  ci, total_scraped, returned, trace>>

(***************************************************************************)
(* Bounds of the model.                                                    *)
(***************************************************************************)
MaxRetriesArg == 4      \* largest max_retries a caller passes
MaxConfigRetries == 3   \* largest config.max_retries a run is configured with

(***************************************************************************)
(* Python values.                                                          *)
(***************************************************************************)
None == "None"
NotFound == <<"Not found">>
DefaultMaxRetries == 3

(***************************************************************************)
(* Text helpers.                                                           *)
(***************************************************************************)
RECURSIVE Pow2(_)
Pow2(n) == IF n = 0 THEN 1 ELSE 2 * Pow2(n - 1)

\* sub in s
Contains(s, sub) ==
    \E i \in 0..(Len(s) - Len(sub)) :
        \A j \in 1..Len(sub) : s[i + j] = sub[j]

\* str.strip(): leading and trailing white space removed
RECURSIVE LStrip(_)
LStrip(s) == IF s # <<>> /\ Head(s) = " " THEN LStrip(Tail(s)) ELSE s

RECURSIVE RStrip(_)
RStrip(s) ==
    IF s # <<>> /\ s[Len(s)] = " " THEN RStrip(SubSeq(s, 1, Len(s) - 1)) ELSE s

Strip(s) == RStrip(LStrip(s))

\* s.split('/')[-1]: what follows the last "/"
RECURSIVE LastSegment(_)
LastSegment(s) ==
    IF \E i \in 1..Len(s) : s[i] = "/" THEN LastSegment(Tail(s)) ELSE s

(***************************************************************************)
(* The fetcher: safe_request.  outs is what the successive GET attempts    *)
(* meet: "ok" (a response whose status passes raise_for_status) or the     *)
(* exception raised.  The result carries the response, the number of GETs  *)
(* issued and the log of GETs and sleeps in the order they happened.       *)
(***************************************************************************)
FetchOutcomes == {"ok", "timeout", "connection", "http", "other"}

GetEvent(attempt, outcome) == [ev |-> "get", attempt |-> attempt, outcome |-> outcome]
SleepEvent(secs) == [ev |-> "sleep", secs |-> secs]

\* time.sleep(2 ** attempt) when another attempt follows
\* (BackoffAlways: the sleep without its condition)
BackoffAlways(attempt, max_retries, log) == Append(log, SleepEvent(Pow2(attempt)))

Backoff(attempt, max_retries, log) ==
    IF attempt < max_retries - 1
    THEN Append(log, SleepEvent(Pow2(attempt)))
    ELSE log

RECURSIVE AttemptLoop(_, _, _, _)
AttemptLoop(outs, max_retries, attempt, log) ==
    IF attempt >= max_retries
    THEN [response |-> None, gets |-> attempt, log |-> log]
    ELSE LET outcome == outs[attempt + 1]
             log1 == Append(log, GetEvent(attempt, outcome))
         IN IF outcome = "ok"
            THEN [response |-> "ok", gets |-> attempt + 1, log |-> log1]
            ELSE AttemptLoop(outs, max_retries, attempt + 1,
                             Backoff(attempt, max_retries, log1))

\* max_retries = max_retries or self.config.max_retries; the optional
\* argument is <<>> when none is passed and <<n>> when n is passed
EffectiveRetries(max_retries, config_max_retries) ==
    IF max_retries = <<>> \/ max_retries[1] = 0
    THEN config_max_retries
    ELSE max_retries[1]

safe_request(outs, max_retries, config_max_retries) ==
    AttemptLoop(outs, EffectiveRetries(max_retries, config_max_retries), 0, <<>>)

(***************************************************************************)
(* URLs.  urljoin(base, href) for the hrefs a page can carry: an empty     *)
(* href, an absolute URL (its first token is scheme and host), a path      *)
(* starting with "/", a relative path, and a malformed absolute URL, on    *)
(* which urljoin raises ValueError.                                        *)
(***************************************************************************)
Raise == <<"!ValueError">>

\* what a function hands back: a value, or an exception on its way up
Returned(v) == [raised |-> FALSE, value |-> v]
Raised == [raised |-> TRUE]

base_url ==
    <<"https://web.archive.org", "/", "web", "/", "20250708180027", "/",
      "https:", "/", "/", "www.myfootdr.com.au">>

Origins == {"https://web.archive.org", "https://www.myfootdr.com.au"}
MalformedOrigin == "https://[bad"

\* the path up to and including its last "/"
RECURSIVE DirOf(_)
DirOf(path) ==
    IF path = <<>> \/ path[Len(path)] = "/"
    THEN path
    ELSE DirOf(SubSeq(path, 1, Len(path) - 1))

\* empty path segments dropped: a "/" that follows a "/" goes
RECURSIVE Collapse(_)
Collapse(path) ==
    IF Len(path) < 2 THEN path
    ELSE IF path[1] = "/" /\ path[2] = "/" THEN Collapse(Tail(path))
    ELSE <<Head(path)>> \o Collapse(Tail(path))

urljoin(base, href) ==
    IF href = <<>> THEN base
    ELSE IF Head(href) = MalformedOrigin THEN Raise
    ELSE IF Head(href) \in Origins THEN href
    ELSE IF Head(href) = "/" THEN <<Head(base)>> \o href
    ELSE <<Head(base)>> \o Collapse(DirOf(Tail(base)) \o href)

(***************************************************************************)
(* A link of a page: its href attribute and its text.  get_text(strip=True)*)
(* is the text with the white space around it removed.                     *)
(***************************************************************************)
Link(href, text) == [href |-> href, text |-> text]

get_text_strip(text) == Strip(text)

\* str.title() on one word
Capitalize(w) ==
    CASE w = "qld" -> "Qld"
      [] w = "vic" -> "Vic"
      [] w = "new" -> "New"
      [] w = "south" -> "South"
      [] OTHER -> w

\* s.replace('-', ' ').title()
RECURSIVE HyphensToTitle(_)
HyphensToTitle(s) ==
    IF s = <<>> THEN <<>>
    ELSE <<IF Head(s) = "-" THEN " " ELSE Capitalize(Head(s))>>
         \o HyphensToTitle(Tail(s))

\* link.get_text(strip=True) or href.split('/')[-1].replace('-', ' ').title()
region_name(link) ==
    IF get_text_strip(link.text) # <<>>
    THEN get_text_strip(link.text)
    ELSE HyphensToTitle(LastSegment(link.href))

(***************************************************************************)
(* extract_regions.  A parsed page is, per selector in priority order, the *)
(* list of links the selector matches.  The result is the list of regions, *)
(* or Raise when urljoin raised on the way.                                *)
(***************************************************************************)
NumRegionSelectors == 4

RECURSIVE RegionLinks(_, _, _)
RegionLinks(links, regs, seen_regions) ==
    IF links = <<>> THEN Returned([regions |-> regs, seen |-> seen_regions])
    ELSE LET link == Head(links)
             full_url == urljoin(base_url, link.href)
         IN IF full_url = Raise THEN Raised
            ELSE IF full_url \notin seen_regions
            THEN RegionLinks(Tail(links),
                             Append(regs, [name |-> region_name(link), url |-> full_url]),
                             seen_regions \cup {full_url})
            ELSE RegionLinks(Tail(links), regs, seen_regions)

RECURSIVE RegionSelectors(_, _, _, _)
RegionSelectors(page, k, regs, seen_regions) ==
    IF k > NumRegionSelectors THEN Returned(regs)
    ELSE LET r == RegionLinks(page[k], regs, seen_regions)
         IN IF r.raised THEN Raised
            ELSE IF r.value.regions # <<>> THEN Returned(r.value.regions)
            ELSE RegionSelectors(page, k + 1, r.value.regions, r.value.seen)

\* response is None (the fetch failed) or "ok"; page is the parsed body
extract_regions(response, page) ==
    IF response = None THEN Returned(<<>>)
    ELSE RegionSelectors(page, 1, <<>>, {})

(***************************************************************************)
(* extract_clinics_from_region.                                            *)
(***************************************************************************)
NumClinicSelectors == 7

ClinicPath == <<"/", "our", "-", "clinics", "/">>
RegionPath == <<"/", "regions", "/">>
GenericLabels == {<<"Our Clinics">>, <<"Clinics">>, <<>>}

Qualifies(link, full_url, seen) ==
    /\ Contains(link.href, ClinicPath)
    /\ ~Contains(link.href, RegionPath)
    /\ get_text_strip(link.text) # <<>>
    /\ get_text_strip(link.text) \notin GenericLabels
    /\ full_url \notin seen

RECURSIVE ClinicLinks(_, _, _)
ClinicLinks(links, found, seen) ==
    IF links = <<>> THEN Returned(found)
    ELSE LET link == Head(links)
             full_url == urljoin(base_url, link.href)
         IN IF full_url = Raise THEN Raised
            ELSE IF Qualifies(link, full_url, seen)
            THEN ClinicLinks(Tail(links),
                             Append(found, [name |-> get_text_strip(link.text),
                                            url |-> full_url]),
                             seen)
            ELSE ClinicLinks(Tail(links), found, seen)

\* if clinics: break  (StopAfterSelectorAnyMatch: break on any match)
StopAfterSelectorAnyMatch(links, found) == links # <<>>

StopAfterSelector(links, found) == found # <<>>

RECURSIVE ClinicSelectors(_, _, _, _)
ClinicSelectors(page, k, found, seen) ==
    IF k > NumClinicSelectors THEN Returned(found)
    ELSE LET r == ClinicLinks(page[k], found, seen)
         IN IF r.raised THEN Raised
            ELSE IF StopAfterSelector(page[k], r.value) THEN Returned(r.value)
            ELSE ClinicSelectors(page, k + 1, r.value, seen)

\* if not response: return clinics
\* (extract_clinics_or_raise: a failed fetch raised instead)
extract_clinics_or_raise(response, page, seen) ==
    IF response = None THEN Raised
    ELSE ClinicSelectors(page, 1, <<>>, seen)

extract_clinics_from_region(response, page, seen) ==
    IF response = None THEN Returned(<<>>)
    ELSE ClinicSelectors(page, 1, <<>>, seen)

(***************************************************************************)
(* A parsed clinic page (soup).  An element that may be missing is <<>>    *)
(* when missing and <<x>> when present.                                    *)
(*   title          text of the first h1.entry-title                       *)
(*   address        the children of the first .address element, each a     *)
(*                  [tag, text] node                                       *)
(*   rose           text of the first a.rose-button[href^="tel:"]          *)
(*   tel            href of the first a whose href starts with tel:        *)
(*   mailto         href of the first a whose href starts with mailto:     *)
(*   phone_sections texts of the elements matching the phone extractor's   *)
(*                  contact selectors, email_sections likewise             *)
(*   has_body, head whether there is a body element; the text outside it   *)
(*   rest           the text of the page that is in none of the above      *)
(*   services       per services selector, the matched articles, each the  *)
(*                  text of its first h3/h2/h4 (or <<>>)                   *)
(*   raises         the extractor in which the parsing library raises on   *)
(*                  this page, or "none"                                   *)
(***************************************************************************)
Absent == <<>>

PhoneShaped == {"07 3333 4444", "(07) 5555-6666"}
EmailShaped == {"info@clinic.com"}
\* tokens made of characters that are neither letters nor digits
NonAlnum == {" ", "*", "-", ",", "(", ")", "+", "; "}
\* tokens made of digits, hyphens, white space and parentheses only
PhoneChars == PhoneShaped \cup {" ", "-", "(", ")", "12", "0733334444"}
\* tokens that contain "@"
WithAt == EmailShaped \cup {"@", "info@clinic"}

RECURSIVE Concat(_)
Concat(texts) == IF texts = <<>> THEN <<>> ELSE Head(texts) \o Concat(Tail(texts))

RECURSIVE Filter(_, _)
Filter(s, keep) ==
    IF s = <<>> THEN <<>>
    ELSE (IF Head(s) \in keep THEN <<Head(s)>> ELSE <<>>) \o Filter(Tail(s), keep)

RECURSIVE Without(_, _)
Without(s, drop) ==
    IF s = <<>> THEN <<>>
    ELSE (IF Head(s) \in drop THEN <<>> ELSE <<Head(s)>>) \o Without(Tail(s), drop)

\* re.search / re.findall(...)[0]: the first token of the given shape, as a
\* one-token string, or <<>>
FirstOf(text, shape) ==
    IF Filter(text, shape) = <<>> THEN <<>> ELSE <<Head(Filter(text, shape))>>

RECURSIVE NodeTexts(_)
NodeTexts(nodes) ==
    IF nodes = <<>> THEN <<>> ELSE <<Head(nodes).text>> \o NodeTexts(Tail(nodes))

\* get_text() of the body and of the whole document
BodyText(soup) ==
    Concat(soup.title) \o
    (IF soup.address = Absent THEN <<>> ELSE Concat(NodeTexts(soup.address[1]))) \o
    Concat(soup.rose) \o Concat(soup.phone_sections) \o
    Concat(soup.email_sections) \o soup.rest

PageText(soup) == soup.head \o BodyText(soup)

\* _extract_name
_extract_name(soup) ==
    IF soup.title # Absent
    THEN get_text_strip(soup.title[1])
    ELSE NotFound

\* _extract_address: on a copy, i/svg/span removed, br replaced by " "
RECURSIVE Decompose(_)
Decompose(nodes) ==
    IF nodes = <<>> THEN <<>>
    ELSE LET n == Head(nodes)
         IN (IF n.tag \in {"i", "svg", "span"} THEN <<>>
             ELSE IF n.tag = "br" THEN <<[tag |-> "text", text |-> <<" ">>]>>
             ELSE <<n>>) \o Decompose(Tail(nodes))

\* get_text(" ", strip=True): the stripped non-empty strings joined by " "
RECURSIVE JoinStripped(_)
JoinStripped(texts) ==
    IF texts = <<>> THEN <<>>
    ELSE LET t == Strip(Head(texts))
             more == JoinStripped(Tail(texts))
         IN IF t = <<>> THEN more
            ELSE IF more = <<>> THEN t
            ELSE t \o <<" ">> \o more

\* re.sub(r'^\s*[^A-Za-z0-9]*', '', text)
RECURSIVE DropLeadingNonAlnum(_)
DropLeadingNonAlnum(text) ==
    IF text # <<>> /\ Head(text) \in NonAlnum
    THEN DropLeadingNonAlnum(Tail(text))
    ELSE text

_extract_address(soup) ==
    IF soup.address = Absent THEN NotFound
    ELSE LET address_text ==
                 Strip(DropLeadingNonAlnum(
                     JoinStripped(NodeTexts(Decompose(soup.address[1])))))
         IN IF address_text # <<>> THEN address_text ELSE NotFound

\* the first section in which the shape occurs gives its first occurrence
RECURSIVE FirstInSections(_, _)
FirstInSections(sections, shape) ==
    IF sections = <<>> THEN <<>>
    ELSE IF FirstOf(Head(sections), shape) # <<>>
    THEN FirstOf(Head(sections), shape)
    ELSE FirstInSections(Tail(sections), shape)

_extract_phone(soup) ==
    IF soup.rose # Absent /\ FirstOf(get_text_strip(soup.rose[1]), PhoneShaped) # <<>>
    THEN FirstOf(get_text_strip(soup.rose[1]), PhoneShaped)
    ELSE IF soup.tel # Absent
    THEN Strip(Without(soup.tel[1], {"tel:"}))
    ELSE LET contact_sections ==
                 IF soup.phone_sections # <<>>
                 THEN soup.phone_sections
                 ELSE <<PageText(soup)>>
             phones == FirstInSections(contact_sections, PhoneShaped)
         IN IF phones # <<>> THEN phones ELSE NotFound

_extract_email(soup) ==
    LET email == IF soup.mailto = Absent THEN <<>>
                 ELSE Strip(Without(soup.mailto[1], {"mailto:"}))
    IN IF soup.mailto # Absent /\ Filter(email, WithAt) # <<>>
       THEN email
       ELSE LET contact_sections ==
                    IF soup.email_sections # <<>>
                    THEN soup.email_sections
                    ELSE IF soup.has_body THEN <<BodyText(soup)>>
                    ELSE <<PageText(soup)>>
                emails == FirstInSections(contact_sections, EmailShaped)
            IN IF emails # <<>> THEN emails ELSE NotFound

\* _extract_services
NumServiceSelectors == 5

RECURSIVE ServiceNames(_, _)
ServiceNames(articles, services) ==
    IF articles = <<>> THEN services
    ELSE LET h3 == Head(articles)
             service_name == IF h3 = Absent THEN <<>> ELSE get_text_strip(h3[1])
         IN IF h3 # Absent /\ service_name # <<>>
               /\ ~(\E i \in 1..Len(services) : services[i] = service_name)
            THEN ServiceNames(Tail(articles), Append(services, service_name))
            ELSE ServiceNames(Tail(articles), services)

RECURSIVE ServiceSelectors(_, _, _)
ServiceSelectors(page, k, services) ==
    IF k > NumServiceSelectors THEN services
    ELSE LET found == ServiceNames(page[k], services)
         IN IF found # <<>> THEN found
            ELSE ServiceSelectors(page, k + 1, found)

\* '; '.join(services)
RECURSIVE JoinSemicolon(_)
JoinSemicolon(names) ==
    IF names = <<>> THEN <<>>
    ELSE IF Len(names) = 1 THEN names[1]
    ELSE names[1] \o <<"; ">> \o JoinSemicolon(Tail(names))

_extract_services(soup) ==
    LET services == ServiceSelectors(soup.services, 1, <<>>)
    IN IF services # <<>> THEN JoinSemicolon(services) ELSE NotFound

(***************************************************************************)
(* ClinicData.                                                             *)
(***************************************************************************)
_normalize_phone(phone) ==
    IF phone = NotFound THEN phone
    ELSE LET cleaned == Strip(Filter(phone, PhoneChars))
         IN IF cleaned # <<>> THEN cleaned ELSE NotFound

_validate_email(email) ==
    IF email = NotFound THEN email
    ELSE IF Len(email) = 1 /\ email[1] \in EmailShaped THEN email
    ELSE NotFound

ClinicData(name, address, phone, email, services, url) ==
    [name |-> name, address |-> address, phone |-> _normalize_phone(phone),
     email |-> _validate_email(email), services |-> services, url |-> url,
     region |-> <<>>]

to_dict(details) ==
    [Region |-> details.region, Clinic_Name |-> details.name,
     Address |-> details.address, Phone |-> details.phone,
     Email |-> details.email, Services |-> details.services]

(***************************************************************************)
(* extract_clinic_details.  The result carries what the method returned    *)
(* (details, <<>> for None), the visited set it leaves, the GETs it issued *)
(* and the return statement it left by.                                    *)
(***************************************************************************)
FieldNames == {"name", "address", "phone", "email", "services"}

\* the try block: an exception in any of the five extractors
ExtractorRaises(soup) == soup.raises \in FieldNames

\* self.seen_clinic_urls.add(clinic_url), after the fetch succeeded
\* (MarkSeenAlways: the URL added before the fetch is looked at)
MarkSeenAlways(seen, clinic_url, response) == seen \cup {clinic_url}

MarkSeen(seen, clinic_url, response) ==
    IF response = None THEN seen ELSE seen \cup {clinic_url}

\* if clinic_url in self.seen_clinic_urls: return None
\* (NeverSeen: the check left out)
NeverSeen(clinic_url, seen) == FALSE

AlreadySeen(clinic_url, seen) == clinic_url \in seen

\* the record the try block builds, or nothing when an extractor raised
\* (BuildFieldByField: each extractor in a try block of its own)
BuildFieldByField(soup, clinic_url) ==
    <<ClinicData(IF soup.raises = "name" THEN NotFound ELSE _extract_name(soup),
                 IF soup.raises = "address" THEN NotFound ELSE _extract_address(soup),
                 IF soup.raises = "phone" THEN NotFound ELSE _extract_phone(soup),
                 IF soup.raises = "email" THEN NotFound ELSE _extract_email(soup),
                 IF soup.raises = "services" THEN NotFound ELSE _extract_services(soup),
                 clinic_url)>>

Build(soup, clinic_url) ==
    IF ExtractorRaises(soup) THEN <<>>
    ELSE <<ClinicData(_extract_name(soup), _extract_address(soup),
                      _extract_phone(soup), _extract_email(soup),
                      _extract_services(soup), clinic_url)>>

extract_clinic_details(clinic_url, seen, outs, soup, config_max_retries) ==
    IF AlreadySeen(clinic_url, seen)
    THEN [details |-> <<>>, seen |-> seen, gets |-> 0, exit |-> "skipped"]
    ELSE LET r == safe_request(outs, <<>>, config_max_retries)
             seen1 == MarkSeen(seen, clinic_url, r.response)
         IN IF r.response = None
            THEN [details |-> <<>>, seen |-> seen1, gets |-> r.gets,
                  exit |-> "fetch_failed"]
            ELSE [details |-> Build(soup, clinic_url), seen |-> seen1,
                  gets |-> r.gets,
                  exit |-> IF Build(soup, clinic_url) = <<>>
                           THEN "extract_failed" ELSE "extracted"]

(***************************************************************************)
(* The site the run meets: the pages a fetch can bring back.               *)
(***************************************************************************)
\* hrefs
H_Alpha == <<"/", "our", "-", "clinics", "/", "alpha">>
H_AlphaAbs == <<"https://web.archive.org", "/", "our", "-", "clinics", "/", "alpha">>
H_Beta == <<"/", "our", "-", "clinics", "/", "beta", "/">>
H_Index == <<"/", "our", "-", "clinics", "/">>
H_Qld == <<"/", "our", "-", "clinics", "/", "regions", "/", "qld">>
H_NewSouth == <<"/", "our", "-", "clinics", "/", "regions", "/", "new", "-", "south">>
H_Vic == <<"/", "our", "-", "clinics", "/", "regions", "/", "vic", "/">>
H_Bad == <<MalformedOrigin, "/", "our", "-", "clinics", "/", "alpha">>

\* links of a region page
L_Alpha == Link(H_Alpha, <<"Alpha">>)
L_AlphaAbs == Link(H_AlphaAbs, <<" ", "Alpha", " ">>)
L_Beta == Link(H_Beta, <<"Beta">>)
L_Index == Link(H_Index, <<"Our Clinics">>)
L_Blank == Link(H_Beta, <<" ">>)
L_Qld == Link(H_Qld, <<"Queensland">>)
L_Bad == Link(H_Bad, <<"Alpha">>)

\* links of the listing page
R_Qld == Link(H_Qld, <<"Queensland">>)
R_NewSouth == Link(H_NewSouth, <<>>)
R_Vic == Link(H_Vic, <<" ">>)
R_Bad == Link(H_Bad, <<"Queensland">>)

URL_Alpha == urljoin(base_url, H_Alpha)
URL_Beta == urljoin(base_url, H_Beta)

\* a page on which only selectors i and j match
PageAt(n, i, li, j, lj) ==
    [k \in 1..n |-> IF k = i THEN li ELSE IF k = j THEN lj ELSE <<>>]

ListingPages ==
    { PageAt(NumRegionSelectors, 1, <<>>, 1, <<>>),
      PageAt(NumRegionSelectors, 3, <<R_Qld, R_NewSouth, R_Qld>>, 4, <<R_Qld, R_NewSouth, R_Vic>>),
      PageAt(NumRegionSelectors, 1, <<R_NewSouth, R_Vic>>, 4, <<R_NewSouth, R_Vic>>),
      PageAt(NumRegionSelectors, 4, <<R_Bad>>, 4, <<R_Bad>>) }

RegionPages ==
    { PageAt(NumClinicSelectors, 1, <<>>, 1, <<>>),
      PageAt(NumClinicSelectors, 1, <<L_Index, L_Qld>>, 4, <<L_Alpha, L_Beta>>),
      PageAt(NumClinicSelectors, 1, <<L_Alpha, L_AlphaAbs, L_Alpha>>, 7, <<L_Alpha, L_AlphaAbs, L_Beta>>),
      PageAt(NumClinicSelectors, 2, <<L_Beta, L_Blank>>, 7, <<L_Index, L_Beta>>),
      PageAt(NumClinicSelectors, 2, <<L_Alpha, L_Bad>>, 7, <<L_Alpha, L_Bad>>) }

TextNode(text) == [tag |-> "text", text |-> text]
IconNode == [tag |-> "i", text |-> <<"*">>]
BrNode == [tag |-> "br", text |-> <<>>]

NoServices == [k \in 1..NumServiceSelectors |-> <<>>]

FullPage ==
    [title |-> <<<<"Alpha", " ", "Clinic">>>>,
     address |-> <<<<IconNode, TextNode(<<" ", "*", " ", "12", " ", "Main">>), BrNode,
                     TextNode(<<"Town">>)>>>>,
     rose |-> <<<<"Call", " ", "07 3333 4444">>>>,
     tel |-> <<<<"tel:", "0733334444">>>>,
     mailto |-> <<<<"mailto:", "info@clinic.com">>>>,
     phone_sections |-> <<>>, email_sections |-> <<>>,
     has_body |-> TRUE, head |-> <<>>, rest |-> <<>>,
     services |-> [NoServices EXCEPT ![2] = <<<<<<"Orthotics">>>>, Absent,
                                              <<<<"Nail", " ", "Care">>>>,
                                              <<<<"Orthotics">>>>>>],
     raises |-> "none"]

EmptyTitlePage ==
    [FullPage EXCEPT !.title = <<<<" ">>>>, !.rose = Absent, !.tel = Absent,
                     !.mailto = Absent, !.address = Absent,
                     !.services = NoServices]

RaisingPage == [FullPage EXCEPT !.raises = "address"]

SitePages == {FullPage, EmptyTitlePage, RaisingPage}

\* what the GET attempts of one fetch of the run meet
SiteOuts ==
    { <<"ok", "ok", "ok">>, <<"timeout", "http", "ok">>,
      <<"timeout", "connection", "other">> }

(***************************************************************************)
(* The output file.  Each row carries, beside the six columns, the clinic  *)
(* URL it was extracted from (src: history, not written).                  *)
(***************************************************************************)
fieldnames == <<"Region", "Clinic_Name", "Address", "Phone", "Email", "Services">>

HeaderRow == [kind |-> "header", cols |-> fieldnames, src |-> <<>>]
DataRow(dict, url) == [kind |-> "data", cols |-> dict, src |-> url]

StaleRow ==
    DataRow([Region |-> <<"Old">>, Clinic_Name |-> <<"Old">>, Address |-> NotFound,
             Phone |-> NotFound, Email |-> NotFound, Services |-> NotFound],
            <<"an earlier run">>)

NoFile == [exists |-> FALSE, rows |-> <<>>]
StaleFile == [exists |-> TRUE, rows |-> <<HeaderRow, StaleRow>>]

NoCall == [fn |-> "none"]
NoRet == [fn |-> "none"]

(***************************************************************************)
(* scrape_all_clinics, step by step.                                       *)
(***************************************************************************)
Init ==
    /\ pc = "Start"
    /\ seen_clinic_urls = {}
    /\ file \in {NoFile, StaleFile}
    /\ sinkOpen = FALSE
    /\ regions = <<>>
    /\ ri = 1
    /\ clinics = <<>>
    /\ ci = 1
    /\ total_scraped = 0
    /\ returned = <<>>
    /\ trace = <<>>
    /\ call = NoCall
    /\ ret = NoRet

\* regions = self.extract_regions(); if not regions: return 0
DiscoverRegions ==
    /\ pc = "Start"
    /\ \E outs \in SiteOuts, page \in ListingPages :
          LET r == safe_request(outs, <<>>, DefaultMaxRetries)
              regs == extract_regions(r.response, page)
          IN IF regs.raised
             THEN /\ pc' = "Raised"
                  /\ UNCHANGED <<regions, returned>>
             ELSE /\ regions' = regs.value
                  /\ IF regs.value = <<>>
                     THEN pc' = "Done" /\ returned' = <<0>>
                     ELSE pc' = "Open" /\ UNCHANGED returned
    /\ UNCHANGED <<seen_clinic_urls, file, sinkOpen, ri, clinics, ci,
                   total_scraped, trace, call, ret>>

\* csvfile = open(filename, 'w', ...)
OpenSink ==
    /\ pc = "Open"
    /\ file' = [exists |-> TRUE, rows |-> <<>>]
    /\ sinkOpen' = TRUE
    /\ pc' = "Header"
    /\ UNCHANGED <<seen_clinic_urls, regions, ri, clinics, ci, total_scraped,
                   returned, trace, call, ret>>

\* writer.writeheader(), which is outside the try block: a failed write
\* (OSError) leaves by the exception with csvfile still open
WriteHeader ==
    /\ pc = "Header"
    /\ \E write_ok \in BOOLEAN :
          IF write_ok
          THEN /\ file' = [file EXCEPT !.rows = Append(@, HeaderRow)]
               /\ pc' = "Region"
          ELSE /\ pc' = "Raised"
               /\ UNCHANGED file
    /\ UNCHANGED <<seen_clinic_urls, sinkOpen, regions, ri, clinics, ci,
                   total_scraped, returned, trace, call, ret>>

\* history: what an iteration of the loop over regions, or over clinics, did
RegionEvent(url, response, raised, links) ==
    [kind |-> "region", url |-> url,
     exit |-> IF response = None THEN "fetch_failed" ELSE "fetched",
     raised |-> raised, gets |-> 0, links |-> links]
ClinicEvent(url, exit, gets) ==
    [kind |-> "clinic", url |-> url, exit |-> exit, raised |-> FALSE,
     gets |-> gets, links |-> <<>>]

RECURSIVE Urls(_)
Urls(links) == IF links = <<>> THEN <<>> ELSE <<Head(links).url>> \o Urls(Tail(links))

\* for region in regions: ... clinics = self.extract_clinics_from_region(...)
\* an exception leaves through finally: csvfile.close()
NextRegion ==
    /\ pc = "Region"
    /\ ri <= Len(regions)
    /\ \E outs \in SiteOuts, page \in RegionPages :
          LET r == safe_request(outs, <<>>, DefaultMaxRetries)
              found == extract_clinics_from_region(r.response, page, seen_clinic_urls)
          IN IF found.raised
             THEN /\ pc' = "Raised"
                  /\ sinkOpen' = FALSE
                  /\ trace' = Append(trace, RegionEvent(regions[ri].url, r.response,
                                                        TRUE, <<>>))
                  /\ UNCHANGED <<clinics, ci>>
             ELSE /\ clinics' = found.value
                  /\ ci' = 1
                  /\ pc' = "Clinic"
                  /\ trace' = Append(trace, RegionEvent(regions[ri].url, r.response,
                                                        FALSE, Urls(found.value)))
                  /\ UNCHANGED sinkOpen
    /\ UNCHANGED <<seen_clinic_urls, file, regions, ri, total_scraped, returned,
                   call, ret>>

\* the loop over regions is over: finally: csvfile.close(); return total_scraped
RegionsDone ==
    /\ pc = "Region"
    /\ ri > Len(regions)
    /\ sinkOpen' = FALSE
    /\ returned' = <<total_scraped>>
    /\ pc' = "Done"
    /\ UNCHANGED <<seen_clinic_urls, file, regions, ri, clinics, ci,
                   total_scraped, trace, call, ret>>

\* details.region = region['name']
Stamp(details, region) == [details EXCEPT !.region = region.name]

\* for clinic in clinics: details = self.extract_clinic_details(clinic['url'])
\* if details: writer.writerow(...); total_scraped += 1
NextClinic ==
    /\ pc = "Clinic"
    /\ ci <= Len(clinics)
    /\ \E outs \in SiteOuts, soup \in SitePages, write_ok \in BOOLEAN :
          LET d == extract_clinic_details(clinics[ci].url, seen_clinic_urls, outs,
                                          soup, DefaultMaxRetries)
              event == ClinicEvent(clinics[ci].url, d.exit, d.gets)
          IN /\ seen_clinic_urls' = d.seen
             /\ IF d.details # <<>>
                THEN IF write_ok
                     THEN /\ file' = [file EXCEPT !.rows =
                                 Append(@, DataRow(to_dict(Stamp(d.details[1], regions[ri])),
                                                   clinics[ci].url))]
                          /\ total_scraped' = total_scraped + 1
                          /\ ci' = ci + 1
                          /\ trace' = Append(trace, event)
                          /\ UNCHANGED <<pc, sinkOpen>>
                     ELSE /\ pc' = "Raised"
                          /\ sinkOpen' = FALSE
                          /\ trace' = Append(trace, [event EXCEPT !.raised = TRUE])
                          /\ UNCHANGED <<file, total_scraped, ci>>
                ELSE /\ ci' = ci + 1
                     /\ trace' = Append(trace, event)
                     /\ UNCHANGED <<pc, sinkOpen, file, total_scraped>>
    /\ UNCHANGED <<regions, ri, clinics, returned, call, ret>>

\* the loop over the clinics of a region is over: on to the next region
ClinicsDone ==
    /\ pc = "Clinic"
    /\ ci > Len(clinics)
    /\ ri' = ri + 1
    /\ pc' = "Region"
    /\ UNCHANGED <<seen_clinic_urls, file, sinkOpen, regions, clinics, ci,
                   total_scraped, returned, trace, call, ret>>

Next ==
    \/ DiscoverRegions
    \/ OpenSink
    \/ WriteHeader
    \/ NextRegion
    \/ RegionsDone
    \/ NextClinic
    \/ ClinicsDone

Spec == Init /\ [][Next]_vars

\* one thread of control: the run takes its next step as long as it has one
FairSpec == Spec /\ WF_vars(Next)

(***************************************************************************)
(* The functions called on their own, on inputs drawn from bounded sets.   *)
(***************************************************************************)
MaxAttempts == IF MaxRetriesArg > MaxConfigRetries THEN MaxRetriesArg ELSE MaxConfigRetries

RetryArgs == {<<>>} \cup {<<n>> : n \in 0..MaxRetriesArg}

FetchCalls ==
    [fn : {"safe_request"}, outs : [1..MaxAttempts -> FetchOutcomes],
     max_retries : RetryArgs, config_max_retries : 0..MaxConfigRetries]

\* region pages: links drawn from a pool, on the first selector and a later one
H_Rel == <<"regions", "/", "our", "-", "clinics", "/", "gamma">>
L_Rel == Link(H_Rel, <<"Gamma">>)
LinkPool == {L_Alpha, L_AlphaAbs, L_Beta, L_Index, L_Blank, L_Qld, L_Rel, L_Bad}
LinkLists == {<<>>} \cup {<<a>> : a \in LinkPool}
                    \cup {<<a, b>> : a \in LinkPool, b \in {L_Alpha, L_Beta, L_Index}}
UnitRegionPages ==
    { PageAt(NumClinicSelectors, 1, l1, j, l2) :
          l1 \in LinkLists, j \in {2, NumClinicSelectors},
          l2 \in {<<>>, <<L_Beta>>, <<L_Alpha, L_Index>>} }

DiscoverCalls ==
    [fn : {"extract_clinics_from_region"}, response : {"ok", None},
     page : UnitRegionPages, seen : {{}, {URL_Alpha}}]

\* clinic pages: every combination of what each part of the page can be
Titles == {Absent, <<<<" ">>>>, <<<<" ", "Alpha", " ", "Clinic">>>>}
Addresses ==
    { Absent, <<<<IconNode, BrNode>>>>,
      <<<<IconNode, TextNode(<<" ", "*", " ", "12", " ", "Main">>), BrNode,
          TextNode(<<"Town">>)>>>> }
Phones ==
    { [rose |-> Absent, tel |-> Absent],
      [rose |-> Absent, tel |-> <<<<"tel:", "+", "0733334444">>>>],
      [rose |-> <<<<"Call", " ", "us">>>>, tel |-> <<<<"tel:">>>>],
      [rose |-> <<<<"Call", " ", "07 3333 4444">>>>, tel |-> <<<<"tel:", "0733334444">>>>] }
Mailtos == {Absent, <<<<"mailto:", "info@clinic.com">>>>, <<<<"MAILTO:", "info@clinic">>>>}
Rests == {<<>>, <<"Call", " ", "(07) 5555-6666", " ", "info@clinic.com">>}
ServiceLists ==
    { NoServices,
      [NoServices EXCEPT ![1] = <<Absent, <<<<" ">>>>>>,
                         ![3] = <<<<<<"Orthotics">>>>, <<<<"Nail", " ", "Care">>>>,
                                  <<<<"Orthotics">>>>>>,
                         ![5] = <<<<<<"Other">>>>>>] }

QuietSoups ==
    { [title |-> t, address |-> a, rose |-> p.rose, tel |-> p.tel, mailto |-> m,
       phone_sections |-> <<>>, email_sections |-> es, has_body |-> TRUE,
       head |-> <<>>, rest |-> r, services |-> sv, raises |-> "none"] :
          t \in Titles, a \in Addresses, p \in Phones, m \in Mailtos,
          es \in {<<>>, <<<<"Email", " ", "us">>, <<"info@clinic.com">>>>},
          r \in Rests, sv \in ServiceLists }

UnitSoups ==
    QuietSoups \cup
    { [s EXCEPT !.raises = f] : s \in {FullPage, EmptyTitlePage}, f \in FieldNames }

DetailCalls ==
    [fn : {"extract_clinic_details"}, clinic_url : {URL_Alpha},
     seen : {{}, {URL_Alpha}, {URL_Beta}}, outs : SiteOuts, soup : UnitSoups]

UnitInit ==
    /\ pc = "Unit"
    /\ seen_clinic_urls = {}
    /\ file = NoFile
    /\ sinkOpen = FALSE
    /\ regions = <<>>
    /\ ri = 1
    /\ clinics = <<>>
    /\ ci = 1
    /\ total_scraped = 0
    /\ returned = <<>>
    /\ trace = <<>>
    /\ call \in FetchCalls \cup DiscoverCalls \cup DetailCalls
    /\ ret = NoRet

CallSafeRequest ==
    /\ call.fn = "safe_request"
    /\ ret = NoRet
    /\ ret' = [fn |-> call.fn,
               result |-> safe_request(call.outs, call.max_retries,
                                       call.config_max_retries)]
    /\ UNCHANGED <<pipelineVars, call>>

CallExtractClinicsFromRegion ==
    /\ call.fn = "extract_clinics_from_region"
    /\ ret = NoRet
    /\ ret' = [fn |-> call.fn,
               result |-> extract_clinics_from_region(call.response, call.page,
                                                      call.seen)]
    /\ UNCHANGED <<pipelineVars, call>>

CallExtractClinicDetails ==
    /\ call.fn = "extract_clinic_details"
    /\ ret = NoRet
    /\ ret' = [fn |-> call.fn,
               result |-> extract_clinic_details(call.clinic_url, call.seen, call.outs,
                                                 call.soup, DefaultMaxRetries)]
    /\ UNCHANGED <<pipelineVars, call>>

UnitNext ==
    \/ CallSafeRequest
    \/ CallExtractClinicsFromRegion
    \/ CallExtractClinicDetails

UnitSpec == UnitInit /\ [][UnitNext]_vars

(***************************************************************************)
(* What the claims speak of.                                               *)
(***************************************************************************)
\* the run has opened its output file
Opened ==
    \/ pc \in {"Header", "Region", "Clinic"}
    \/ pc \in {"Done", "Raised"} /\ regions # <<>>

\* the rows this run has written
RunRows == IF Opened THEN file.rows ELSE <<>>

DataIdx == {i \in 1..Len(RunRows) : RunRows[i].kind = "data"}

ClinicIdx(url) == {k \in 1..Len(trace) : trace[k].kind = "clinic" /\ trace[k].url = url}

\* the iterations that wrote a row
WroteIdx ==
    {k \in 1..Len(trace) :
        trace[k].kind = "clinic" /\ trace[k].exit = "extracted" /\ ~trace[k].raised}

(* C1: in one run no two written data rows come from the same clinic URL;  *)
(* the row of a URL is written by the first iteration on that URL whose    *)
(* fetch and extraction succeeded: every earlier iteration on it failed    *)
(* its fetch, every later one is skipped.                                  *)
C1_OneRowPerUrl ==
    /\ \A i \in DataIdx : \A j \in DataIdx : i # j => RunRows[i].src # RunRows[j].src
    /\ Cardinality(DataIdx) = Cardinality(WroteIdx)
    /\ \A i \in DataIdx :
          \E k \in WroteIdx :
             /\ trace[k].url = RunRows[i].src
             /\ \A j \in ClinicIdx(trace[k].url) :
                   /\ j < k => trace[j].exit = "fetch_failed"
                   /\ j > k => trace[j].exit = "skipped"

\* a URL whose fetch failed twice, then succeeded and gave a row, then was
\* skipped
C1_Witness ==
    \E i \in DataIdx : \E k \in WroteIdx :
       /\ trace[k].url = RunRows[i].src
       /\ Cardinality({j \in ClinicIdx(trace[k].url) : j < k}) >= 2
       /\ \E j \in ClinicIdx(trace[k].url) : j > k

(* C2: safe_request issues at most maxRetries GETs, maxRetries being the   *)
(* value passed, or the configured default when none is passed; it stops   *)
(* at the first successful attempt and returns its response; when every    *)
(* attempt fails it returns None.                                          *)
C2_AtMostMaxRetries ==
    (call.fn = "safe_request" /\ ret # NoRet) =>
        LET maxRetries == IF call.max_retries = <<>>
                          THEN call.config_max_retries
                          ELSE call.max_retries[1]
            r == ret.result
        IN /\ r.gets <= maxRetries
           /\ r.response = "ok" =>
                 /\ call.outs[r.gets] = "ok"
                 /\ \A j \in 1..(r.gets - 1) : call.outs[j] # "ok"
           /\ (\A j \in 1..maxRetries : call.outs[j] # "ok") => r.response = None

(* C3: every field of every written data row is a non-empty string.        *)
C3_NoEmptyField ==
    \A i \in DataIdx :
        /\ RunRows[i].cols.Region # <<>>
        /\ RunRows[i].cols.Clinic_Name # <<>>
        /\ RunRows[i].cols.Address # <<>>
        /\ RunRows[i].cols.Phone # <<>>
        /\ RunRows[i].cols.Email # <<>>
        /\ RunRows[i].cols.Services # <<>>

(* C4: every run that returns has opened the output file, overwriting what *)
(* was there, and has written the header once, before any data row.        *)
C4_HeaderInEveryRun ==
    pc = "Done" =>
        /\ file.exists
        /\ file.rows # <<>>
        /\ file.rows[1] = HeaderRow
        /\ \A i \in 2..Len(file.rows) :
              file.rows[i].kind = "data" /\ file.rows[i].src # StaleRow.src

(* C5: when the run has ended, by a return or by an exception, the output  *)
(* file is closed.                                                         *)
C5_SinkClosedAtExit == pc \in {"Done", "Raised"} => ~sinkOpen

\* the history of a run that went through every region and every clinic link
RECURSIVE InDiscoveryOrder(_, _)
InDiscoveryOrder(t, regs) ==
    IF regs = <<>> THEN t = <<>>
    ELSE /\ t # <<>>
         /\ t[1].kind = "region"
         /\ t[1].url = regs[1].url
         /\ Len(t) >= 1 + Len(t[1].links)
         /\ \A i \in 1..Len(t[1].links) :
               t[1 + i].kind = "clinic" /\ t[1 + i].url = t[1].links[i]
         /\ InDiscoveryOrder(SubSeq(t, Len(t[1].links) + 2, Len(t)), Tail(regs))

C6_FailureStep ==
    (trace' # trace) =>
        LET e == trace'[Len(trace')]
        IN /\ (e.kind = "region" /\ e.exit = "fetch_failed") =>
                 pc' = "Clinic" /\ clinics' = <<>> /\ file' = file
           /\ (e.kind = "clinic" /\ e.exit \in {"skipped", "fetch_failed", "extract_failed"}) =>
                 /\ pc' = "Clinic"
                 /\ ci' = ci + 1
                 /\ file' = file
                 /\ total_scraped' = total_scraped

C6_Returned ==
    pc = "Done" =>
        /\ returned = <<Cardinality(DataIdx)>>
        /\ InDiscoveryOrder(trace, regions)

\* an exception left the run only from the listing page or the header (no
\* iteration yet), from the parsing of a region page, or from the write of an
\* extracted row
C6_RaisedOnlyBy ==
    pc = "Raised" =>
        \/ trace = <<>>
        \/ /\ trace[Len(trace)].raised
           /\ trace[Len(trace)].kind = "clinic" => trace[Len(trace)].exit = "extracted"

Fetched ==
    /\ call.fn = "extract_clinic_details"
    /\ ret # NoRet
    /\ ret.result.exit \in {"extracted", "extract_failed"}

(* C7, as the claim has it: after a successful fetch the record is always  *)
(* returned; a field whose extraction failed is "Not found" and the other  *)
(* fields carry their values.                                              *)
C7_RecordAlwaysReturned ==
    Fetched =>
        /\ ret.result.details # <<>>
        /\ LET d == ret.result.details[1]
               s == call.soup
           IN /\ d.name = (IF s.raises = "name" THEN NotFound ELSE _extract_name(s))
              /\ d.address = (IF s.raises = "address" THEN NotFound ELSE _extract_address(s))
              /\ d.services = (IF s.raises = "services" THEN NotFound ELSE _extract_services(s))

HasPhoneToken(text) == \E i \in 1..Len(text) : text[i] \in PhoneShaped
HasEmailToken(text) == \E i \in 1..Len(text) : text[i] \in EmailShaped

(* C7, amended: after a successful fetch the URL is marked visited; when   *)
(* no extractor raises, the record is returned, a field whose element is   *)
(* missing from the page is "Not found" whatever the other fields are, and *)
(* a field whose element is there carries its value whatever else is       *)
(* missing; when an extractor raises an exception, no record is returned.  *)
C7_FieldByField ==
    Fetched =>
        LET s == call.soup
            r == ret.result
        IN /\ call.clinic_url \in r.seen
           /\ s.raises \in FieldNames => r.details = <<>>
           /\ s.raises = "none" =>
                 /\ r.details # <<>>
                 /\ LET d == r.details[1]
                    IN /\ d.url = call.clinic_url
                       /\ s.title = Absent => d.name = NotFound
                       /\ s.title = <<<<" ", "Alpha", " ", "Clinic">>>> =>
                              d.name = <<"Alpha", " ", "Clinic">>
                       /\ s.address = Absent => d.address = NotFound
                       /\ s.address = <<<<IconNode, BrNode>>>> => d.address = NotFound
                       /\ (s.address # Absent /\ Len(s.address[1]) = 4) =>
                              d.address = <<"12", " ", "Main", " ", "Town">>
                       /\ (s.rose # Absent /\ HasPhoneToken(s.rose[1])) =>
                              d.phone = <<"07 3333 4444">>
                       /\ (s.rose = Absent /\ s.tel # Absent) =>
                              d.phone = <<"0733334444">>
                       /\ (s.tel = Absent /\ ~HasPhoneToken(s.rest)) => d.phone = NotFound
                       /\ (s.tel = Absent /\ HasPhoneToken(s.rest)) =>
                              d.phone = <<"(07) 5555-6666">>
                       /\ s.mailto = <<<<"mailto:", "info@clinic.com">>>> =>
                              d.email = <<"info@clinic.com">>
                       /\ (s.mailto = Absent /\ s.email_sections = <<>>
                             /\ ~HasEmailToken(s.rest)) => d.email = NotFound
                       /\ (s.mailto = Absent /\ s.email_sections # <<>>) =>
                              d.email = <<"info@clinic.com">>
                       /\ s.services = NoServices => d.services = NotFound
                       /\ s.services # NoServices =>
                              d.services = <<"Orthotics", "; ", "Nail", " ", "Care">>

\* a page with no title element and no address element, whose phone and
\* e-mail are there: the record carries them
C7_Witness ==
    /\ Fetched
    /\ call.soup.raises = "none"
    /\ call.soup.title = Absent
    /\ call.soup.address = Absent
    /\ ret.result.details # <<>>
    /\ ret.result.details[1].name = NotFound
    /\ ret.result.details[1].phone = <<"07 3333 4444">>
    /\ ret.result.details[1].email = <<"info@clinic.com">>

(* C8: in the log of one call, a failed GET that is not the last event is  *)
(* followed by a sleep of 2^i seconds, i its attempt index, and then by    *)
(* attempt i + 1; the first GET is attempt 0; a successful GET is the last *)
(* event; the last event is never a sleep: it is a successful GET or the   *)
(* GET of the last attempt allowed.                                        *)
C8_Backoff ==
    (call.fn = "safe_request" /\ ret # NoRet) =>
        LET log == ret.result.log
            n == Len(log)
            last == EffectiveRetries(call.max_retries, call.config_max_retries) - 1
        IN /\ n > 0 => (log[1].ev = "get" /\ log[1].attempt = 0)
           /\ n > 0 => /\ log[n].ev = "get"
                       /\ (log[n].outcome = "ok" \/ log[n].attempt = last)
           /\ \A k \in 1..n :
                 /\ (log[k].ev = "get" /\ log[k].outcome = "ok") => k = n
                 /\ (log[k].ev = "get" /\ log[k].outcome # "ok" /\ k < n) =>
                        /\ log[k].attempt < last
                        /\ log[k + 1] = SleepEvent(2 ^ log[k].attempt)
                        /\ k + 2 <= n
                        /\ log[k + 2].ev = "get"
                        /\ log[k + 2].attempt = log[k].attempt + 1
                 /\ log[k].ev = "sleep" =>
                        /\ k > 1 /\ k < n
                        /\ log[k - 1].ev = "get" /\ log[k - 1].outcome # "ok"

\* three attempts that all failed: GET, sleep 1, GET, sleep 2, GET
C8_Witness ==
    /\ call.fn = "safe_request"
    /\ ret # NoRet
    /\ ret.result.response = None
    /\ Len(ret.result.log) = 5
    /\ ret.result.log[2] = SleepEvent(1)
    /\ ret.result.log[4] = SleepEvent(2)
    /\ ret.result.log[5].ev = "get"

\* one step of the run, as C9 has it
C9_Step ==
    /\ seen_clinic_urls \subseteq seen_clinic_urls'
    /\ (seen_clinic_urls' # seen_clinic_urls) =>
          /\ trace' # trace
          /\ trace'[Len(trace')].kind = "clinic"
          /\ trace'[Len(trace')].exit \in {"extracted", "extract_failed"}
    /\ (trace' # trace /\ trace'[Len(trace')].kind = "clinic") =>
          LET e == trace'[Len(trace')]
          IN /\ e.exit = "skipped" =>
                   /\ e.url \in seen_clinic_urls
                   /\ e.gets = 0
                   /\ seen_clinic_urls' = seen_clinic_urls
             /\ e.exit = "fetch_failed" =>
                   /\ e.gets > 0
                   /\ seen_clinic_urls' = seen_clinic_urls
             /\ e.exit \in {"extracted", "extract_failed"} =>
                   /\ e.gets > 0
                   /\ e.url \notin seen_clinic_urls
                   /\ seen_clinic_urls' = seen_clinic_urls \cup {e.url}

(* C9: the visited set never loses an element; an iteration that skips a   *)
(* clinic issues no GET and leaves the set as it was; one whose fetch      *)
(* failed leaves the set as it was; the set changes only in an iteration   *)
(* whose fetch succeeded, and then by the URL fetched.                     *)
C9_SeenOnlyOnFetch == [][C9_Step]_vars

\* a skipped clinic and a clinic whose fetch failed, which is not in the set
C9_Witness ==
    /\ \E k \in 1..Len(trace) : trace[k].kind = "clinic" /\ trace[k].exit = "skipped"
    /\ \E k \in 1..Len(trace) :
          /\ trace[k].kind = "clinic" /\ trace[k].exit = "fetch_failed"
          /\ trace[k].url \notin seen_clinic_urls
    /\ seen_clinic_urls # {}

\* the links of a match list that qualify, in their order
QualIdx(links, seen) ==
    {i \in 1..Len(links) :
        /\ Contains(links[i].href, ClinicPath)
        /\ ~Contains(links[i].href, RegionPath)
        /\ Strip(links[i].text) \notin GenericLabels
        /\ urljoin(base_url, links[i].href) \notin seen}

IsQualifyingOf(result, links, seen) ==
    /\ Len(result) = Cardinality(QualIdx(links, seen))
    /\ \A i \in QualIdx(links, seen) :
          LET n == Cardinality({j \in QualIdx(links, seen) : j <= i})
          IN /\ result[n].name = Strip(links[i].text)
             /\ result[n].url = urljoin(base_url, links[i].href)

Discovered ==
    /\ call.fn = "extract_clinics_from_region"
    /\ ret # NoRet
    /\ call.response = "ok"
    /\ ~ret.result.raised

(* C10, as the claim has it: the result is the qualifying links of the     *)
(* first selector that yields at least one match.                          *)
C10_StopsAtFirstMatch ==
    Discovered =>
        \/ /\ \A k \in 1..NumClinicSelectors : call.page[k] = <<>>
           /\ ret.result.value = <<>>
        \/ \E k \in 1..NumClinicSelectors :
              /\ call.page[k] # <<>>
              /\ \A j \in 1..(k - 1) : call.page[j] = <<>>
              /\ IsQualifyingOf(ret.result.value, call.page[k], call.seen)

(* C10, amended: the result is the qualifying links of the first selector  *)
(* that yields at least one qualifying link (a selector whose matches all  *)
(* fail the filter does not stop the chain), and is empty when no selector *)
(* yields one; no returned link has a URL in the visited set or a          *)
(* denylisted or empty text.                                               *)
C10_StopsAtFirstQualifying ==
    Discovered =>
        /\ \/ /\ \A k \in 1..NumClinicSelectors : QualIdx(call.page[k], call.seen) = {}
              /\ ret.result.value = <<>>
           \/ \E k \in 1..NumClinicSelectors :
                 /\ QualIdx(call.page[k], call.seen) # {}
                 /\ \A j \in 1..(k - 1) : QualIdx(call.page[j], call.seen) = {}
                 /\ IsQualifyingOf(ret.result.value, call.page[k], call.seen)
        /\ \A n \in 1..Len(ret.result.value) :
              /\ ret.result.value[n].url \notin call.seen
              /\ ret.result.value[n].name \notin GenericLabels

\* the first selector matches links of which none qualifies, and the links
\* returned are those of a later selector
C10_Witness ==
    /\ Discovered
    /\ call.page[1] # <<>>
    /\ QualIdx(call.page[1], call.seen) = {}
    /\ ret.result.value # <<>>

====
